---- MODULE Spec2Model ----
(***************************************************************************)
(* A model of didkit: the Sidetree create-operation assembler, its hashing *)
(* and canonicalization primitives, the JWK key material and its           *)
(* zeroize-on-drop rule, and the DID method implementations' create.       *)
(*                                                                         *)
(* Text is a TLA+ string, bytes are sequences over 0..255, Option<T> is a   *)
(* sequence of length at most one, Result<T, E> is a record with an `ok`   *)
(* flag.  A serde_json::Value is a record [type, v]; an object's v is a    *)
(* function from member names to values (serde_json's Map is a BTreeMap:   *)
(* one value per name, no insertion order).                                *)
(***************************************************************************)
EXTENDS Integers, Sequences, FiniteSets, Bags, TLC

VARIABLES
    keys,    \* the JWK values the caller owns: a bag (equal keys may coexist)
    freed,   \* the private-scalar buffers the last call released, as left in memory
    ret,     \* the call whose result the caller holds: name, arguments, result
    methods, \* a DIDMethods registry: its map from method name to implementation
    inserted,\* the implementations handed to insert so far, oldest first (history)
    cell,    \* the Lazy cell of DID_METHODS: its state and, once set, its value
    threads  \* each thread's position in its access to DID_METHODS

registry_vars == <<methods, inserted>>
lazy_vars == <<cell, threads>>
vars == <<keys, freed, ret, methods, inserted, cell, threads>>

(***************************************************************************)
(* Bounds of the model.                                                    *)
(***************************************************************************)
MaxKeys == 2       \* JWK values the caller holds at one time
MaxPatches == 2    \* length of a patch list handed to create_existing
MaxData == 2       \* length of a byte string handed to hash directly
MaxInserts == 3    \* insert calls made on one registry
MaxOptions == 3    \* -o arguments folded into one option object
MaxCreateOptions == 1  \* -o arguments on a create command
MaxThreads == 2    \* threads that reach for DID_METHODS

(***************************************************************************)
(* Option and Result.                                                      *)
(***************************************************************************)
None == <<>>
Some(v) == <<v>>
is_some(o) == Len(o) = 1
unwrap(o) == o[1]

Ok(v) == [ok |-> TRUE, v |-> v]
Err(e) == [ok |-> FALSE, e |-> e]

\* anyhow: an error is its chain of messages, outermost context first.
anyhow(msg) == <<msg>>
context(res, msg) == IF res.ok THEN res ELSE [res EXCEPT !.e = <<msg>> \o @]

(***************************************************************************)
(* Text as bytes: str::as_bytes on ASCII text.                             *)
(***************************************************************************)
AsciiFrom32 == " !\"#$%&'()*+,-./0123456789:;<=>?@ABCDEFGHIJKLMNOPQRSTUVWXYZ[\\]^_"
AsciiFrom97 == "abcdefghijklmnopqrstuvwxyz{|}~"

Ord ==
    [c \in {SubSeq(AsciiFrom32, i, i) : i \in 1..Len(AsciiFrom32)} |->
        31 + (CHOOSE i \in 1..Len(AsciiFrom32) : SubSeq(AsciiFrom32, i, i) = c)]
    @@
    [c \in {SubSeq(AsciiFrom97, i, i) : i \in 1..Len(AsciiFrom97)} |->
        96 + (CHOOSE i \in 1..Len(AsciiFrom97) : SubSeq(AsciiFrom97, i, i) = c)]

as_bytes(s) == [i \in 1..Len(s) |-> Ord[SubSeq(s, i, i)]]

\* Lexicographic order of two strings by code unit: the order of a BTreeMap's
\* String keys, and the order JCS sorts member names in.  a < b when, at the
\* first place they differ, a has ended or holds the smaller unit.
str_less(a, b) ==
    \E i \in 1..Len(b) :
        /\ \A j \in 1..(i - 1) : j <= Len(a) /\ SubSeq(a, j, j) = SubSeq(b, j, j)
        /\ \/ i > Len(a)
           \/ Ord[SubSeq(a, i, i)] < Ord[SubSeq(b, i, i)]

\* The names of a set in ascending order.
sorted_keys(names) ==
    [i \in 1..Cardinality(names) |->
        CHOOSE k \in names : Cardinality({o \in names : str_less(o, k)}) = i - 1]

\* Concatenation of parts[lo..hi], halving the range.
RECURSIVE concat_range(_, _, _)
concat_range(parts, lo, hi) ==
    IF lo > hi THEN ""
    ELSE IF lo = hi THEN parts[lo]
    ELSE LET mid == (lo + hi) \div 2
         IN  concat_range(parts, lo, mid) \o concat_range(parts, mid + 1, hi)

(***************************************************************************)
(* serde_json::Value.                                                      *)
(***************************************************************************)
JString(s) == [type |-> "String", v |-> s]
JBool(b) == [type |-> "Bool", v |-> b]
JNull == [type |-> "Null", v |-> <<>>]
JArray(a) == [type |-> "Array", v |-> a]
JObject(m) == [type |-> "Object", v |-> m]

has_member(val, name) == val.type = "Object" /\ name \in DOMAIN val.v

\* A JSON string literal: quotation mark and reverse solidus are escaped.
escape(s) ==
    concat_range([i \in 1..Len(s) |->
                    LET c == SubSeq(s, i, i)
                    IN  IF c = "\"" \/ c = "\\" THEN "\\" \o c ELSE c],
                 1, Len(s))

quote(s) == "\"" \o escape(s) \o "\""

join(parts) ==
    concat_range([i \in 1..Len(parts) |->
                    IF i > 1 THEN "," \o parts[i] ELSE parts[i]],
                 1, Len(parts))

\* serde_jcs::to_string on a value: member names sorted, no whitespace.
RECURSIVE jcs_value(_)
jcs_value(val) ==
    CASE val.type = "String" -> quote(val.v)
      [] val.type = "Bool" -> IF val.v THEN "true" ELSE "false"
      [] val.type = "Null" -> "null"
      [] val.type = "Array" ->
            "[" \o join([i \in 1..Len(val.v) |-> jcs_value(val.v[i])]) \o "]"
      [] val.type = "Object" ->
            LET names == sorted_keys(DOMAIN val.v)
            IN  "{" \o join([i \in 1..Len(names) |->
                               quote(names[i]) \o ":" \o jcs_value(val.v[names[i]])])
                    \o "}"

(***************************************************************************)
(* Hashing and encoding.                                                   *)
(***************************************************************************)
MULTIHASH_SHA2_256_PREFIX == <<18>>
MULTIHASH_SHA2_256_SIZE == <<32>>

\* Stands for sha2's Sha256 (new, update, finalize): a 32-byte digest that
\* is a function of every byte of the data and of its length, folded over
\* halves of the data.  Nothing below relies on more than that; collision
\* resistance is not modelled.
RECURSIVE absorb(_, _, _)
absorb(data, lo, hi) ==
    IF lo = hi THEN (data[lo] + lo + 1) % 65521
    ELSE LET mid == (lo + hi) \div 2
         IN  (absorb(data, lo, mid) * 33 + absorb(data, mid + 1, hi) + 1) % 65521

Sha256(data) ==
    LET h == IF Len(data) = 0 THEN 33
             ELSE (absorb(data, 1, Len(data)) * 33 + Len(data)) % 65521
    IN  [i \in 1..32 |-> (((h + 1) * (i * i + 7 * i + 13)) \div 16) % 256]

hash_protocol_algorithm(data) ==
    <<MULTIHASH_SHA2_256_PREFIX \o MULTIHASH_SHA2_256_SIZE, Sha256(data)>>

\* Mutant: hash_algorithm overridden with a digest of its own instead of
\* taking the one hash_protocol_algorithm computes.
hash_algorithm_own_digest(data) == Sha256(data \o <<0>>)

hash_algorithm(data) == hash_protocol_algorithm(data)[2]

hash_protocol(data) ==
    LET ph == hash_protocol_algorithm(data)
    IN  ph[1] \o ph[2]

URL_SAFE == "ABCDEFGHIJKLMNOPQRSTUVWXYZabcdefghijklmnopqrstuvwxyz0123456789-_"
sextet(n) == SubSeq(URL_SAFE, n + 1, n + 1)

\* base64::encode_config(data, URL_SAFE_NO_PAD): four characters for every
\* three bytes, two or three characters for the one or two bytes left over.
base64_group(data, i) ==
    LET left == Len(data) - i + 1
    IN  IF left = 1 THEN
            sextet(data[i] \div 4) \o sextet((data[i] % 4) * 16)
        ELSE IF left = 2 THEN
            sextet(data[i] \div 4)
            \o sextet((data[i] % 4) * 16 + data[i + 1] \div 16)
            \o sextet((data[i + 1] % 16) * 4)
        ELSE
            sextet(data[i] \div 4)
            \o sextet((data[i] % 4) * 16 + data[i + 1] \div 16)
            \o sextet((data[i + 1] % 16) * 4 + data[i + 2] \div 64)
            \o sextet(data[i + 2] % 64)

base64_encode_config(data) ==
    LET groups == (Len(data) + 2) \div 3
    IN  concat_range([g \in 1..groups |-> base64_group(data, 3 * g - 2)], 1, groups)

data_encoding_scheme(data) == base64_encode_config(data)

hash(data) == data_encoding_scheme(hash_protocol(data))

(***************************************************************************)
(* Key material: ssi_jwk::JWK.  Only Params::EC exists, so a JWK is its     *)
(* ECParams: the curve, the coordinates and the optional private scalar.   *)
(***************************************************************************)
KeyMaterial ==
    { [x |-> <<4, 210, 7>>, y |-> <<9, 1>>, d |-> <<201, 33>>],
      [x |-> <<250, 16>>, y |-> <<77, 5, 128>>, d |-> <<6, 255>>] }

JWKs ==
    { [curve |-> "secp256k1", x |-> k.x, y |-> k.y, d |-> d] :
        k \in KeyMaterial, d \in {None} } \cup
    { [curve |-> "secp256k1", x |-> k.x, y |-> k.y, d |-> Some(k.d)] :
        k \in KeyMaterial }

\* impl From<&Base64urlUInt> for String
base64urluint_to_string(data) == base64_encode_config(data)

\* Vec<u8>::zeroize: every byte of the buffer is overwritten with zero.
zeroize(bytes) == [i \in 1..Len(bytes) |-> 0]

Buffer(owner, bytes) == [owner |-> owner, bytes |-> bytes]

\* Mutant: no Drop for ECParams; the scalar's buffer is released as it is.
drop_jwk_unzeroed(jwk) ==
    IF is_some(jwk.d)
    THEN {Buffer("ECParams.ecc_private_key", unwrap(jwk.d))}
    ELSE {}

\* impl Drop for ECParams, then the field's own release: the private scalar's
\* buffer is zeroized and handed back to the allocator.
drop_jwk(jwk) ==
    IF is_some(jwk.d)
    THEN {Buffer("ECParams.ecc_private_key", zeroize(unwrap(jwk.d)))}
    ELSE {}

drop_option_jwk(o) == IF is_some(o) THEN drop_jwk(unwrap(o)) ELSE {}

\* #[serde(into = "Base64urlUIntString")]: serializing a Base64urlUInt clones
\* it and consumes the clone in From<Base64urlUInt>; the clone has no Drop of
\* its own, so its buffer is released as it is.
serialize_base64urluint(data) ==
    [text |-> base64urluint_to_string(data),
     freed |-> {Buffer("Base64urlUInt.clone", data)}]

\* serde_json::to_value on a JWK: the flattened, kty-tagged ECParams; d is
\* skipped when it is None.
jwk_to_value(jwk) ==
    LET public == [kty |-> JString("EC"),
                   crv |-> JString(jwk.curve),
                   x |-> JString(serialize_base64urluint(jwk.x).text),
                   y |-> JString(serialize_base64urluint(jwk.y).text)]
    IN  IF is_some(jwk.d)
        THEN JObject(public @@
                     [d |-> JString(serialize_base64urluint(unwrap(jwk.d)).text)])
        ELSE JObject(public)

jwk_to_value_freed(jwk) ==
    IF is_some(jwk.d) THEN serialize_base64urluint(unwrap(jwk.d)).freed ELSE {}

\* serde_json::to_string on a JWK: the members in declaration order, kty
\* first; the same clones are made and released as for to_value.
jwk_to_string(jwk) ==
    "{\"kty\":\"EC\",\"crv\":" \o quote(jwk.curve)
        \o ",\"x\":" \o quote(serialize_base64urluint(jwk.x).text)
        \o ",\"y\":" \o quote(serialize_base64urluint(jwk.y).text)
        \o (IF is_some(jwk.d)
            THEN ",\"d\":" \o quote(serialize_base64urluint(unwrap(jwk.d)).text)
            ELSE "")
        \o "}"

\* pk.to_encoded_point(false): the uncompressed point, with both coordinates.
to_encoded_point(secret_key) == [x |-> Some(secret_key.x), y |-> Some(secret_key.y)]

\* impl TryFrom<&k256::PublicKey> for ECParams
ECParams_try_from(ec_points) ==
    IF ~is_some(ec_points.x) THEN Err("MissingPoint")
    ELSE IF ~is_some(ec_points.y) THEN Err("MissingPoint")
    ELSE Ok([curve |-> "secp256k1",
             x |-> unwrap(ec_points.x),
             y |-> unwrap(ec_points.y),
             d |-> None])

\* JWK::generate_secp256k1.  secret_key is what SecretKey::random drew.  At
\* the return, on either path, sk_bytes (a Zeroizing) and secret_key (which
\* zeroizes itself) are released zeroed; the scalar's second Vec lives on in
\* the JWK.
generate_secp256k1(secret_key) ==
    LET sk_bytes == secret_key.d
        released == {Buffer("Zeroizing.sk_bytes", zeroize(sk_bytes)),
                     Buffer("SecretKey", zeroize(secret_key.d))}
        with_params(ec_params) ==
            IF ~ec_params.ok THEN [v |-> ec_params, freed |-> released]
            ELSE [v |-> Ok([ec_params.v EXCEPT !.d = Some(sk_bytes)]),
                  freed |-> released]
    IN  with_params(ECParams_try_from(to_encoded_point(secret_key)))

\* cli key generate: the key is generated, written out as JSON and dropped.
\* unwrap() panics on an error, and the unwinding releases the same buffers.
key_generate(secret_key) ==
    LET printed(jwk) ==
            IF ~jwk.v.ok
            THEN [panic |-> TRUE, stdout |-> None, freed |-> jwk.freed]
            ELSE [panic |-> FALSE,
                  stdout |-> Some(jwk_to_string(jwk.v.v)),
                  freed |-> jwk.freed \cup jwk_to_value_freed(jwk.v.v)
                                \cup drop_jwk(jwk.v.v)]
    IN  printed(generate_secp256k1(secret_key))

(***************************************************************************)
(* PublicKeyJwk { jwk: Value }.                                            *)
(***************************************************************************)
\* impl TryFrom<JWK> for PublicKeyJwk.  The JWK is taken by value: it is
\* serialized and then dropped.  v is the Result, freed what was released.
PublicKeyJwk_try_from(jwk) ==
    [v |-> Ok([jwk |-> jwk_to_value(jwk)]),
     freed |-> jwk_to_value_freed(jwk) \cup drop_jwk(jwk)]

\* #[derive(Serialize)] on the struct: one member, named jwk.
PublicKeyJwk_to_value(pk) == JObject([jwk |-> pk.jwk])

PublicKeyJwks == { PublicKeyJwk_try_from(jwk).v.v : jwk \in JWKs }

(***************************************************************************)
(* serde's renaming rules, and the pieces deserializers are made of.       *)
(***************************************************************************)
\* The upper-case form of an ASCII letter; any other character is itself.
to_ascii_uppercase(c) ==
    IF Ord[c] >= 97 /\ Ord[c] <= 122
    THEN SubSeq(AsciiFrom32, Ord[c] - 63, Ord[c] - 63)
    ELSE c

\* #[serde(rename_all = "camelCase")] on a field name: the underscores go,
\* and the letter after each is capitalized.
camel_case(field) ==
    concat_range([i \in 1..Len(field) |->
                    LET c == SubSeq(field, i, i)
                    IN  IF c = "_" THEN ""
                        ELSE IF i > 1 /\ SubSeq(field, i - 1, i - 1) = "_"
                        THEN to_ascii_uppercase(c)
                        ELSE c],
                 1, Len(field))

to_ascii_lowercase(c) ==
    IF Ord[c] >= 65 /\ Ord[c] <= 90
    THEN SubSeq(AsciiFrom97, Ord[c] - 64, Ord[c] - 64)
    ELSE c

is_uppercase(c) == Ord[c] >= 65 /\ Ord[c] <= 90

\* rename_all = "camelCase" on a variant name: the first letter is lowered.
camel_case_variant(variant) ==
    to_ascii_lowercase(SubSeq(variant, 1, 1)) \o SubSeq(variant, 2, Len(variant))

\* rename_all = "kebab-case" on a variant name: every capital is lowered,
\* and every capital but the first is preceded by a hyphen.
kebab_case(variant) ==
    concat_range([i \in 1..Len(variant) |->
                    LET c == SubSeq(variant, i, i)
                    IN  IF is_uppercase(c) /\ i > 1
                        THEN "-" \o to_ascii_lowercase(c)
                        ELSE to_ascii_lowercase(c)],
                 1, Len(variant))

\* A required String member of an object.
string_field(obj, name) ==
    IF name \notin DOMAIN obj THEN Err("missing field " \o name)
    ELSE IF obj[name].type # "String" THEN Err("invalid type: expected a string")
    ELSE Ok(obj[name].v)

\* An Option<String> member: None when the member is absent or null.
optional_string_field(obj, name) ==
    IF name \notin DOMAIN obj THEN Ok(None)
    ELSE IF obj[name].type = "Null" THEN Ok(None)
    ELSE IF obj[name].type # "String" THEN Err("invalid type: expected a string")
    ELSE Ok(Some(obj[name].v))

\* A required member of an object.
field(obj, name) ==
    IF name \notin DOMAIN obj THEN Err("missing field " \o name) ELSE Ok(obj[name])

\* The elements of a member that must be a JSON array.
array_of(member) ==
    IF ~member.ok THEN member
    ELSE IF member.v.type # "Array" THEN Err("invalid type: expected a sequence")
    ELSE Ok(member.v.v)

\* A Vec<T> from its elements' Results: the first error, or all the values.
collect(rs) ==
    IF \E i \in 1..Len(rs) : ~rs[i].ok
    THEN rs[CHOOSE i \in 1..Len(rs) : ~rs[i].ok /\ \A j \in 1..(i - 1) : rs[j].ok]
    ELSE Ok([i \in 1..Len(rs) |-> rs[i].v])

string_from_value(val) ==
    IF val.type # "String" THEN Err("invalid type: expected a string") ELSE Ok(val.v)

\* Vec<String> from a member.
strings_from(member) ==
    LET items == array_of(member)
    IN  IF ~items.ok THEN items
        ELSE collect([i \in 1..Len(items.v) |-> string_from_value(items.v[i])])

(***************************************************************************)
(* DID state patches, Delta, SuffixData, CreateOperation, Operation.       *)
(***************************************************************************)
\* Deserialize for PublicKeyJwk: an object with the member jwk.
PublicKeyJwk_from_value(val) ==
    IF val.type # "Object" THEN Err("invalid type: expected struct PublicKeyJwk")
    ELSE IF "jwk" \notin DOMAIN val.v THEN Err("missing field jwk")
    ELSE Ok([jwk |-> val.v["jwk"]])

\* ssi_dids::VerificationRelationship: the relationships PublicKeyEntry's
\* conversion names, written in camelCase.
VerificationRelationships ==
    {"Authentication", "AssertionMethod", "KeyAgreement",
     "CapabilityInvocation", "CapabilityDelegation"}

VerificationRelationship_to_value(purpose) == JString(camel_case_variant(purpose))

VerificationRelationship_from_value(val) ==
    IF val.type # "String" THEN Err("invalid type: expected a string")
    ELSE IF \E r \in VerificationRelationships : camel_case_variant(r) = val.v
    THEN Ok(CHOOSE r \in VerificationRelationships : camel_case_variant(r) = val.v)
    ELSE Err("unknown variant " \o val.v)

\* Vec<VerificationRelationship> from a member.
purposes_from(member) ==
    LET items == array_of(member)
    IN  IF ~items.ok THEN items
        ELSE collect([i \in 1..Len(items.v) |-> VerificationRelationship_from_value(items.v[i])])

\* ssi_dids::ServiceEndpoint: "URL or object".
ServiceEndpoint_URI(uri) == [variant |-> "URI", uri |-> uri]
ServiceEndpoint_Map(map) == [variant |-> "Map", map |-> map]

ServiceEndpoint_to_value(endpoint) ==
    IF endpoint.variant = "URI" THEN JString(endpoint.uri) ELSE endpoint.map

ServiceEndpoint_from_value(val) ==
    IF val.type = "String" THEN Ok(ServiceEndpoint_URI(val.v))
    ELSE Ok(ServiceEndpoint_Map(val))

\* enum PublicKey, #[serde(rename_all = "camelCase")], externally tagged.
PublicKey_Jwk(pk) == [variant |-> "PublicKeyJwk", jwk |-> pk]
PublicKey_Multibase(text) == [variant |-> "PublicKeyMultibase", multibase |-> text]

PublicKeyEntry(id, type, controller, public_key, purposes) ==
    [id |-> id, type |-> type, controller |-> controller,
     public_key |-> public_key, purposes |-> purposes]

\* Serialize for PublicKeyEntry: controller is skipped when None, and the
\* public key is flattened into the entry as its one tagged member.
PublicKeyEntry_to_value(entry) ==
    JObject([id |-> JString(entry.id),
             type |-> JString(entry.type),
             purposes |-> JArray([i \in 1..Len(entry.purposes) |->
                            VerificationRelationship_to_value(entry.purposes[i])])]
            @@ (IF is_some(entry.controller)
                THEN [controller |-> JString(unwrap(entry.controller))] ELSE <<>>)
            @@ (IF entry.public_key.variant = "PublicKeyJwk"
                THEN (camel_case_variant("PublicKeyJwk")
                        :> PublicKeyJwk_to_value(entry.public_key.jwk))
                ELSE (camel_case_variant("PublicKeyMultibase")
                        :> JString(entry.public_key.multibase))))

\* Deserialize for the flattened PublicKey: the member named after a variant.
PublicKey_from_flattened(obj) ==
    IF camel_case_variant("PublicKeyJwk") \in DOMAIN obj
    THEN LET pk == PublicKeyJwk_from_value(obj[camel_case_variant("PublicKeyJwk")])
         IN  IF pk.ok THEN Ok(PublicKey_Jwk(pk.v)) ELSE pk
    ELSE IF camel_case_variant("PublicKeyMultibase") \in DOMAIN obj
    THEN LET text == string_from_value(obj[camel_case_variant("PublicKeyMultibase")])
         IN  IF text.ok THEN Ok(PublicKey_Multibase(text.v)) ELSE text
    ELSE Err("no variant of enum PublicKey found in flattened data")

\* Mutant: an absent controller is read back as the empty string.
PublicKeyEntry_from_value_defaulting(val) ==
    LET public_key == PublicKey_from_flattened(val.v)
        purposes == purposes_from(field(val.v, "purposes"))
    IN  Ok(PublicKeyEntry(val.v["id"].v, val.v["type"].v,
                          IF "controller" \in DOMAIN val.v
                          THEN Some(val.v["controller"].v) ELSE Some(""),
                          public_key.v, purposes.v))

PublicKeyEntry_from_value(val) ==
    IF val.type # "Object" THEN Err("invalid type: expected a map")
    ELSE
    LET entry_of(members) ==
            IF ~members.ok THEN members
            ELSE Ok(PublicKeyEntry(members.v[1], members.v[2], members.v[3],
                                   members.v[4], members.v[5]))
    IN  entry_of(collect(<<string_field(val.v, "id"),
                           string_field(val.v, "type"),
                           optional_string_field(val.v, "controller"),
                           PublicKey_from_flattened(val.v),
                           purposes_from(field(val.v, "purposes"))>>))

\* Vec<PublicKeyEntry> from a member.
public_keys_from(member) ==
    LET items == array_of(member)
    IN  IF ~items.ok THEN items
        ELSE collect([i \in 1..Len(items.v) |-> PublicKeyEntry_from_value(items.v[i])])

ServiceEndpointEntry(id, type, service_endpoint) ==
    [id |-> id, type |-> type, service_endpoint |-> service_endpoint]

\* #[serde(rename_all = "camelCase")]
ServiceEndpointEntry_to_value(entry) ==
    JObject((camel_case("id") :> JString(entry.id))
            @@ (camel_case("type") :> JString(entry.type))
            @@ (camel_case("service_endpoint")
                    :> ServiceEndpoint_to_value(entry.service_endpoint)))

ServiceEndpointEntry_from_value(val) ==
    IF val.type # "Object" THEN Err("invalid type: expected struct ServiceEndpointEntry")
    ELSE
    LET entry_of(members) ==
            IF ~members.ok THEN members
            ELSE Ok(ServiceEndpointEntry(members.v[1], members.v[2], members.v[3]))
    IN  entry_of(collect(
            <<string_field(val.v, camel_case("id")),
              string_field(val.v, camel_case("type")),
              IF camel_case("service_endpoint") \notin DOMAIN val.v
              THEN Err("missing field serviceEndpoint")
              ELSE ServiceEndpoint_from_value(val.v[camel_case("service_endpoint")])>>))

\* Vec<ServiceEndpointEntry> from a member.
services_from(member) ==
    LET items == array_of(member)
    IN  IF ~items.ok THEN items
        ELSE collect([i \in 1..Len(items.v) |-> ServiceEndpointEntry_from_value(items.v[i])])

DocumentState(public_keys, services) ==
    [public_keys |-> public_keys, services |-> services]

\* Both members: #[serde(skip_serializing_if = "Option::is_none")]
DocumentState_to_value(document) ==
    JObject((IF is_some(document.public_keys)
             THEN (camel_case("public_keys")
                     :> JArray([i \in 1..Len(unwrap(document.public_keys)) |->
                          PublicKeyEntry_to_value(unwrap(document.public_keys)[i])]))
             ELSE <<>>)
            @@ (IF is_some(document.services)
                THEN (camel_case("services")
                        :> JArray([i \in 1..Len(unwrap(document.services)) |->
                             ServiceEndpointEntry_to_value(unwrap(document.services)[i])]))
                ELSE <<>>))

\* Whether an Option member is there: neither absent nor null.
is_present(obj, name) == name \in DOMAIN obj /\ obj[name].type # "Null"

\* Some(v) of an Ok(v); an error as it is.
some_of(res) == IF res.ok THEN Ok(Some(res.v)) ELSE res

DocumentState_from_value(val) ==
    IF val.type # "Object" THEN Err("invalid type: expected struct DocumentState")
    ELSE
    LET document_of(members) ==
            IF ~members.ok THEN members
            ELSE Ok(DocumentState(members.v[1], members.v[2]))
    IN  document_of(collect(
            <<IF is_present(val.v, camel_case("public_keys"))
              THEN some_of(public_keys_from(field(val.v, camel_case("public_keys"))))
              ELSE Ok(None),
              IF is_present(val.v, camel_case("services"))
              THEN some_of(services_from(field(val.v, camel_case("services"))))
              ELSE Ok(None)>>))

\* json_patch::PatchOperation, tagged by op: add and remove.
PatchOperation_add(path, value) == [op |-> "add", path |-> path, value |-> value]
PatchOperation_remove(path) == [op |-> "remove", path |-> path]

PatchOperation_to_value(operation) ==
    IF operation.op = "add"
    THEN JObject([op |-> JString("add"), path |-> JString(operation.path),
                  value |-> operation.value])
    ELSE JObject([op |-> JString("remove"), path |-> JString(operation.path)])

PatchOperation_from_value(val) ==
    IF val.type # "Object" THEN Err("invalid type: expected a map")
    ELSE
    LET op == string_field(val.v, "op")
        path == string_field(val.v, "path")
    IN  IF ~op.ok THEN op
        ELSE IF ~path.ok THEN path
        ELSE IF op.v = "add"
        THEN IF "value" \notin DOMAIN val.v THEN Err("missing field value")
             ELSE Ok(PatchOperation_add(path.v, val.v["value"]))
        ELSE IF op.v = "remove" THEN Ok(PatchOperation_remove(path.v))
        ELSE Err("unknown variant " \o op.v)

\* json_patch::Patch, a Vec<PatchOperation>, from a member.
patch_operations_from(member) ==
    LET items == array_of(member)
    IN  IF ~items.ok THEN items
        ELSE collect([i \in 1..Len(items.v) |-> PatchOperation_from_value(items.v[i])])

AddPublicKeys(public_keys) == [action |-> "AddPublicKeys", public_keys |-> public_keys]
RemovePublicKeys(ids) == [action |-> "RemovePublicKeys", ids |-> ids]
AddServices(services) == [action |-> "AddServices", services |-> services]
RemoveServices(ids) == [action |-> "RemoveServices", ids |-> ids]
Replace(document) == [action |-> "Replace", document |-> document]
IetfJsonPatch(patches) == [action |-> "IetfJsonPatch", patches |-> patches]

PatchValues ==
    { RemovePublicKeys(<<"key-1">>),
      RemoveServices(<<"svc-1", "svc-2">>),
      RemoveServices(<<>>) }

RECURSIVE SeqsUpTo(_, _)
SeqsUpTo(S, n) ==
    IF n = 0 THEN {<<>>}
    ELSE LET shorter == SeqsUpTo(S, n - 1)
         IN  shorter \cup { Append(q, e) : q \in shorter, e \in S }

PatchLists == SeqsUpTo(PatchValues, MaxPatches)

strings_to_value(ids) == JArray([i \in 1..Len(ids) |-> JString(ids[i])])

\* The fields of a patch, by variant, named as on the wire.
DIDStatePatch_fields(patch) ==
    CASE patch.action = "AddPublicKeys" ->
            [publicKeys |-> JArray([i \in 1..Len(patch.public_keys) |->
                              PublicKeyEntry_to_value(patch.public_keys[i])])]
      [] patch.action = "RemovePublicKeys" ->
            [ids |-> strings_to_value(patch.ids)]
      [] patch.action = "AddServices" ->
            [services |-> JArray([i \in 1..Len(patch.services) |->
                            ServiceEndpointEntry_to_value(patch.services[i])])]
      [] patch.action = "RemoveServices" ->
            [ids |-> strings_to_value(patch.ids)]
      [] patch.action = "Replace" ->
            [document |-> DocumentState_to_value(patch.document)]
      [] patch.action = "IetfJsonPatch" ->
            [patches |-> JArray([i \in 1..Len(patch.patches) |->
                           PatchOperation_to_value(patch.patches[i])])]

\* #[serde(tag = "action")] #[serde(rename_all = "kebab-case")]
DIDStatePatch_to_value(patch) ==
    JObject([action |-> JString(kebab_case(patch.action))]
            @@ DIDStatePatch_fields(patch))

PatchActions ==
    {"AddPublicKeys", "RemovePublicKeys", "AddServices", "RemoveServices",
     "Replace", "IetfJsonPatch"}

\* Deserialize for DIDStatePatch: the variant is the one whose kebab-case
\* name is the action member; its fields are read from the same object.
DIDStatePatch_from_value(val) ==
    IF val.type # "Object" THEN Err("invalid type: expected internally tagged enum")
    ELSE
    LET tag == string_field(val.v, "action")
        variant(action, fields) ==
            IF ~fields.ok THEN fields
            ELSE Ok(CASE action = "AddPublicKeys" -> AddPublicKeys(fields.v)
                      [] action = "RemovePublicKeys" -> RemovePublicKeys(fields.v)
                      [] action = "AddServices" -> AddServices(fields.v)
                      [] action = "RemoveServices" -> RemoveServices(fields.v)
                      [] action = "Replace" -> Replace(fields.v)
                      [] action = "IetfJsonPatch" -> IetfJsonPatch(fields.v))
    IN  IF ~tag.ok THEN tag
        ELSE IF ~\E a \in PatchActions : kebab_case(a) = tag.v
        THEN Err("unknown variant " \o tag.v)
        ELSE
        CASE tag.v = kebab_case("AddPublicKeys") ->
                variant("AddPublicKeys", public_keys_from(field(val.v, "publicKeys")))
          [] tag.v = kebab_case("RemovePublicKeys") ->
                variant("RemovePublicKeys", strings_from(field(val.v, "ids")))
          [] tag.v = kebab_case("AddServices") ->
                variant("AddServices", services_from(field(val.v, "services")))
          [] tag.v = kebab_case("RemoveServices") ->
                variant("RemoveServices", strings_from(field(val.v, "ids")))
          [] tag.v = kebab_case("Replace") ->
                variant("Replace",
                        IF "document" \notin DOMAIN val.v
                        THEN Err("missing field document")
                        ELSE DocumentState_from_value(val.v["document"]))
          [] tag.v = kebab_case("IetfJsonPatch") ->
                variant("IetfJsonPatch",
                        patch_operations_from(field(val.v, "patches")))

\* #[serde(rename_all = "camelCase")]
Delta_to_value(delta) ==
    JObject([patches |-> JArray([i \in 1..Len(delta.patches) |->
                                   DIDStatePatch_to_value(delta.patches[i])]),
             updateCommitment |-> JString(delta.update_commitment)])

\* type and anchor_origin: #[serde(skip_serializing_if = "Option::is_none")]
SuffixData_to_value(sd) ==
    JObject([deltaHash |-> JString(sd.delta_hash),
             recoveryCommitment |-> JString(sd.recovery_commitment)]
            @@ (IF is_some(sd.type)
                THEN [type |-> JString(unwrap(sd.type))] ELSE <<>>)
            @@ (IF is_some(sd.anchor_origin)
                THEN [anchorOrigin |-> JString(unwrap(sd.anchor_origin))] ELSE <<>>))

\* Operation: #[serde(tag = "type")] #[serde(rename_all = "camelCase")]
Operation_to_value(op) ==
    JObject([type |-> JString("create"),
             delta |-> Delta_to_value(op.create.delta),
             suffixData |-> SuffixData_to_value(op.create.suffix_data)])

\* Vec<DIDStatePatch> from a member.
patches_from(member) ==
    LET items == array_of(member)
    IN  IF ~items.ok THEN items
        ELSE collect([i \in 1..Len(items.v) |-> DIDStatePatch_from_value(items.v[i])])

Delta_from_value(val) ==
    IF val.type # "Object" THEN Err("invalid type: expected struct Delta")
    ELSE
    LET delta_of(members) ==
            IF ~members.ok THEN members
            ELSE Ok([patches |-> members.v[1], update_commitment |-> members.v[2]])
    IN  delta_of(collect(
            <<patches_from(field(val.v, camel_case("patches"))),
              string_field(val.v, camel_case("update_commitment"))>>))

SuffixData_from_value(val) ==
    IF val.type # "Object" THEN Err("invalid type: expected struct SuffixData")
    ELSE
    LET suffix_data_of(members) ==
            IF ~members.ok THEN members
            ELSE Ok([type |-> members.v[1],
                     delta_hash |-> members.v[2],
                     recovery_commitment |-> members.v[3],
                     anchor_origin |-> members.v[4]])
    IN  suffix_data_of(collect(
            <<optional_string_field(val.v, camel_case("type")),
              string_field(val.v, camel_case("delta_hash")),
              string_field(val.v, camel_case("recovery_commitment")),
              optional_string_field(val.v, camel_case("anchor_origin"))>>))

CreateOperation_from_value(val) ==
    IF camel_case("delta") \notin DOMAIN val.v THEN Err("missing field delta")
    ELSE IF camel_case("suffix_data") \notin DOMAIN val.v
    THEN Err("missing field suffixData")
    ELSE
    LET create_of(members) ==
            IF ~members.ok THEN members
            ELSE Ok([delta |-> members.v[1], suffix_data |-> members.v[2]])
    IN  create_of(collect(
            <<Delta_from_value(val.v[camel_case("delta")]),
              SuffixData_from_value(val.v[camel_case("suffix_data")])>>))

\* Deserialize for Operation: the type member picks the variant, the other
\* members are the variant's own.
Operation_from_value(val) ==
    IF val.type # "Object" THEN Err("invalid type: expected internally tagged enum")
    ELSE
    LET tag == string_field(val.v, "type")
        variant(create) ==
            IF ~create.ok THEN create
            ELSE Ok([variant |-> "Create", create |-> create.v])
    IN  IF ~tag.ok THEN tag
        ELSE IF tag.v # camel_case_variant("Create")
        THEN Err("unknown variant " \o tag.v)
        ELSE variant(CreateOperation_from_value(val))

(***************************************************************************)
(* trait Sidetree.                                                         *)
(*                                                                         *)
(* The Results of commitment_scheme and create_existing carry a ghost      *)
(* field, hashed: the number of digests (hash_protocol_algorithm calls)    *)
(* computed before the function returned.                                  *)
(***************************************************************************)
counted(res, n) == [hashed |-> n] @@ res

json_canonicalization_scheme(value) == Ok(jcs_value(value))

\* Mutant: the canonical key is hashed once, with the prefixed accessor.
commitment_scheme_single_stage(pkjwk) ==
    counted(Ok(hash(as_bytes(jcs_value(PublicKeyJwk_to_value(pkjwk))))), 1)

commitment_scheme(pkjwk) ==
    LET with_canonicalized(canonicalized_public_key) ==
            IF ~canonicalized_public_key.ok
            THEN counted(canonicalized_public_key, 0)
            ELSE LET reveal_value ==
                        hash_algorithm(as_bytes(canonicalized_public_key.v))
                     commitment == hash(reveal_value)
                 IN  counted(Ok(commitment), 2)
    IN  with_canonicalized(
            context(json_canonicalization_scheme(PublicKeyJwk_to_value(pkjwk)),
                    "Canonicalize JWK"))

KeysMustDiffer == "Update and recovery public key JWK payload must be different."

\* Mutants of create_existing, built from the operation a create would
\* return for the given commitments, with hashed_patches under the delta hash.
mutant_operation(update_commitment, recovery_commitment, patches, hashed_patches) ==
    LET delta == [patches |-> patches, update_commitment |-> update_commitment]
        hashed_delta == [delta EXCEPT !.patches = hashed_patches]
        suffix_data == [type |-> None,
                        delta_hash |-> hash(as_bytes(jcs_value(Delta_to_value(hashed_delta)))),
                        recovery_commitment |-> recovery_commitment,
                        anchor_origin |-> None]
    IN  counted(Ok([variant |-> "Create",
                    create |-> [delta |-> delta, suffix_data |-> suffix_data]]), 5)

\* Mutant: the ensure! is missing.
create_existing_unchecked(update_pk, recovery_pk, patches) ==
    mutant_operation(commitment_scheme(update_pk).v, commitment_scheme(recovery_pk).v,
                     patches, patches)

\* Mutant: the two commitments land in each other's field.
create_existing_swapped(update_pk, recovery_pk, patches) ==
    IF update_pk = recovery_pk THEN counted(Err(anyhow(KeysMustDiffer)), 0)
    ELSE mutant_operation(commitment_scheme(recovery_pk).v,
                          commitment_scheme(update_pk).v, patches, patches)

\* Mutant: the delta is hashed before the patches are put into it.
create_existing_stale_hash(update_pk, recovery_pk, patches) ==
    IF update_pk = recovery_pk THEN counted(Err(anyhow(KeysMustDiffer)), 0)
    ELSE mutant_operation(commitment_scheme(update_pk).v,
                          commitment_scheme(recovery_pk).v, patches, <<>>)

create_existing(update_pk, recovery_pk, patches) ==
    LET with_recovery_commitment(delta, delta_hash, hashed, recovery_commitment) ==
            IF ~recovery_commitment.ok
            THEN counted(recovery_commitment,
                         hashed + 1 + recovery_commitment.hashed)
            ELSE
            LET suffix_data == [type |-> None,
                                delta_hash |-> delta_hash,
                                recovery_commitment |-> recovery_commitment.v,
                                anchor_origin |-> None]
                create_operation == [delta |-> delta, suffix_data |-> suffix_data]
            IN  counted(Ok([variant |-> "Create", create |-> create_operation]),
                        hashed + 1 + recovery_commitment.hashed)
        with_delta_string(delta, hashed, delta_string) ==
            IF ~delta_string.ok THEN counted(delta_string, hashed)
            ELSE with_recovery_commitment(
                    delta, hash(as_bytes(delta_string.v)), hashed,
                    context(commitment_scheme(recovery_pk),
                            "Generate recovery commitment"))
        with_update_commitment(update_commitment) ==
            IF ~update_commitment.ok THEN update_commitment
            ELSE
            LET delta == [patches |-> patches,
                          update_commitment |-> update_commitment.v]
            IN  with_delta_string(
                    delta, update_commitment.hashed,
                    context(json_canonicalization_scheme(Delta_to_value(delta)),
                            "Canonicalize Create Operation Delta Object"))
    IN  IF ~(update_pk # recovery_pk) THEN counted(Err(anyhow(KeysMustDiffer)), 0)
        ELSE with_update_commitment(
                context(commitment_scheme(update_pk), "Generate update commitment"))

(***************************************************************************)
(* ssi_dids: DIDCreate, DIDMethodTransaction, DIDMethodError.              *)
(***************************************************************************)
DIDCreate(update_key, recovery_key, verification_key, options) ==
    [update_key |-> update_key,
     recovery_key |-> recovery_key,
     verification_key |-> verification_key,
     options |-> options]

DIDMethodTransaction(did_method, value) ==
    [did_method |-> did_method, value |-> value]

NotImplemented(what) == [kind |-> "NotImplemented", what |-> what]
OptionNotSupported(operation, option) ==
    [kind |-> "OptionNotSupported", operation |-> operation, option |-> option]
\* #[error(transparent)] Other(#[from] anyhow::Error)
Other(chain) == [kind |-> "Other", chain |-> chain]

\* `?` on an anyhow Result inside a function returning DIDMethodError
into_method_error(res) == IF res.ok THEN res ELSE Err(Other(res.e))

\* Mutant: the keys are taken from the far end of the map.
first_option_from_back(options) ==
    IF DOMAIN options = {} THEN None
    ELSE Some(sorted_keys(DOMAIN options)[Cardinality(DOMAIN options)])

\* options.keys().next(): a BTreeMap yields its keys in ascending order.
first_option(options) ==
    IF DOMAIN options = {} THEN None ELSE Some(sorted_keys(DOMAIN options)[1])

(***************************************************************************)
(* did_ion::client.  Every function that takes JWKs by value returns a     *)
(* record: v, its Result, and freed, the private-scalar buffers released   *)
(* by the time it returns.                                                 *)
(***************************************************************************)
\* The associated const Sidetree::METHOD of the ION parameters.
METHOD == "ion"

\* Mutant: a missing recovery key is filled in with the update key.
new_did_state_defaulting(update_key, recovery_key) ==
    IF ~is_some(update_key)
    THEN [v |-> Err(anyhow("Missing required update key")),
          freed |-> drop_option_jwk(recovery_key)]
    ELSE LET recovery == IF is_some(recovery_key) THEN recovery_key
                         ELSE Some([unwrap(update_key) EXCEPT !.x = <<1>>])
             update_pk == PublicKeyJwk_try_from(unwrap(update_key))
             recovery_pk == PublicKeyJwk_try_from(unwrap(recovery))
         IN  [v |-> Ok(<<update_pk.v.v, recovery_pk.v.v>>),
              freed |-> update_pk.freed \cup recovery_pk.freed]

new_did_state(update_key, recovery_key) ==
    LET with_recovery_pk(update_pk, recovery_pk) ==
            IF ~recovery_pk.v.ok
            THEN [v |-> context(Err(anyhow("Unable to convert JWK to Value")),
                                "Convert recovery key"),
                  freed |-> update_pk.freed \cup recovery_pk.freed]
            ELSE [v |-> Ok(<<update_pk.v.v, recovery_pk.v.v>>),
                  freed |-> update_pk.freed \cup recovery_pk.freed]
        with_update_pk(update_pk) ==
            IF ~update_pk.v.ok
            THEN [v |-> context(Err(anyhow("Unable to convert JWK to Value")),
                                "Convert update key"),
                  freed |-> update_pk.freed \cup drop_jwk(unwrap(recovery_key))]
            ELSE with_recovery_pk(update_pk,
                                  PublicKeyJwk_try_from(unwrap(recovery_key)))
    IN  IF ~is_some(update_key)
        THEN [v |-> Err(anyhow("Missing required update key")),
              freed |-> drop_option_jwk(recovery_key)]
        ELSE IF ~is_some(recovery_key)
        THEN [v |-> Err(anyhow("Missing required recovery key")),
              freed |-> drop_jwk(unwrap(update_key))]
        ELSE with_update_pk(PublicKeyJwk_try_from(unwrap(update_key)))

operation_to_transaction(op) ==
    Ok(DIDMethodTransaction(
            METHOD, JObject([sidetreeOperation |-> Operation_to_value(op)])))

\* impl DIDMethod for SidetreeClient<S>: create.  The call site passes no
\* patch list (it is commented out there): the operation carries none.
\* Mutant: the keys are prepared before the options are looked at.
SidetreeClient_create_keys_first(create) ==
    LET opt == first_option(create.options)
        with_operation(released, operation) ==
            IF ~operation.ok
            THEN [v |-> into_method_error(Err(operation.e)), freed |-> released]
            ELSE [v |-> into_method_error(
                            context(operation_to_transaction(operation.v),
                                    "Construct create transaction")),
                  freed |-> released]
        with_state(state) ==
            LET released == state.freed \cup drop_option_jwk(create.verification_key)
                pks == context(state.v, "Prepare keys for DID creation")
            IN  IF ~pks.ok THEN [v |-> into_method_error(pks), freed |-> released]
                ELSE IF is_some(opt)
                THEN [v |-> Err(OptionNotSupported("create", unwrap(opt))),
                      freed |-> released]
                ELSE with_operation(
                        released,
                        context(create_existing(pks.v[1], pks.v[2], <<>>),
                                "Construct Create operation"))
    IN  with_state(new_did_state(create.update_key, create.recovery_key))

SidetreeClient_create(create) ==
    LET opt == first_option(create.options)
        with_operation(released, operation) ==
            IF ~operation.ok
            THEN [v |-> into_method_error(Err(operation.e)), freed |-> released]
            ELSE [v |-> into_method_error(
                            context(operation_to_transaction(operation.v),
                                    "Construct create transaction")),
                  freed |-> released]
        with_state(state) ==
            LET released == state.freed \cup drop_option_jwk(create.verification_key)
                pks == context(state.v, "Prepare keys for DID creation")
            IN  IF ~pks.ok THEN [v |-> into_method_error(pks), freed |-> released]
                ELSE with_operation(
                        released,
                        context(create_existing(pks.v[1], pks.v[2], <<>>),
                                "Construct Create operation"))
    IN  IF is_some(opt)
        THEN [v |-> Err(OptionNotSupported("create", unwrap(opt))),
              freed |-> drop_option_jwk(create.update_key)
                            \cup drop_option_jwk(create.recovery_key)
                            \cup drop_option_jwk(create.verification_key)]
        ELSE with_state(new_did_state(create.update_key, create.recovery_key))

\* impl DIDMethod for DIDIon: create
DIDIon_create(create) ==
    LET opt == first_option(create.options)
        released == drop_option_jwk(create.update_key)
                        \cup drop_option_jwk(create.recovery_key)
                        \cup drop_option_jwk(create.verification_key)
    IN  IF is_some(opt)
        THEN [v |-> Err(OptionNotSupported("create", unwrap(opt))), freed |-> released]
        ELSE [v |-> Ok(DIDMethodTransaction("did:ion", JNull)), freed |-> released]

\* impl DIDMethod for DIDWEB: create
DIDWEB_create(create) ==
    [v |-> Ok(DIDMethodTransaction("did:web", JNull)),
     freed |-> drop_option_jwk(create.update_key)
                   \cup drop_option_jwk(create.recovery_key)
                   \cup drop_option_jwk(create.verification_key)]

Methods == {"SidetreeClient", "DIDIon", "DIDWEB"}

\* method.create(create), dispatched on the implementation.
method_create(method, create) ==
    CASE method = "SidetreeClient" -> SidetreeClient_create(create)
      [] method = "DIDIon" -> DIDIon_create(create)
      [] method = "DIDWEB" -> DIDWEB_create(create)

\* fn name(&self)
method_name(method) ==
    CASE method = "SidetreeClient" -> "ion"
      [] method = "DIDIon" -> "ion"
      [] method = "DIDWEB" -> "web"

\* The items of trait DIDMethod.
DIDMethod_operations == {"name", "create"}

\* The trait's provided create, for an implementation that defines none.
DIDMethod_create(create) ==
    [v |-> Err(NotImplemented("Create operation")),
     freed |-> drop_option_jwk(create.update_key)
                   \cup drop_option_jwk(create.recovery_key)
                   \cup drop_option_jwk(create.verification_key)]

\* The items an implementation defines itself: each of the three defines both.
method_defines(method) == {"name", "create"}

\* A call of an operation on a method: None when the trait has no such
\* item, so that there is nothing to call and nothing is returned.
method_call(method, operation, create) ==
    IF operation \notin DIDMethod_operations THEN None
    ELSE IF operation = "name" THEN Some(method_name(method))
    ELSE IF operation \in method_defines(method)
    THEN Some(method_create(method, create).v)
    ELSE Some(DIDMethod_create(create).v)

(***************************************************************************)
(* Method implementations as values, and the registry DIDMethods.          *)
(***************************************************************************)
\* SidetreeClient::new: the endpoint, and a resolver when a URL is given.
SidetreeClient_new(api_url_opt) ==
    [type |-> "SidetreeClient",
     endpoint |-> api_url_opt,
     resolver |-> IF is_some(api_url_opt)
                  THEN Some(unwrap(api_url_opt) \o "identifiers/") ELSE None]

\* The unit structs DIDWEB and DIDIon.
unit_method(type) == [type |-> type]

ApiUrls == {None, Some("https://ion.example/")}

Implementations ==
    {unit_method("DIDWEB"), unit_method("DIDIon")}
        \cup { SidetreeClient_new(url) : url \in ApiUrls }

\* DIDMethods::default(): an empty map.
DIDMethods_default == <<>>

\* Mutant: the map is keyed by the method's DID prefix, not by its name.
DIDMethods_insert_by_prefix(registry, method) ==
    LET name == "did:" \o method_name(method.type)
    IN  [methods |-> (name :> method) @@ registry,
         out |-> IF name \in DOMAIN registry THEN Some(registry[name]) ELSE None]

\* Mutant: an occupied name keeps the implementation it has.
DIDMethods_insert_keep_first(registry, method) ==
    LET name == method_name(method.type)
    IN  IF name \in DOMAIN registry
        THEN [methods |-> registry, out |-> Some(registry[name])]
        ELSE [methods |-> (name :> method) @@ registry, out |-> None]

\* DIDMethods::insert: HashMap::insert under the method's own name; out is
\* the value the map held under that name before.
DIDMethods_insert(registry, method) ==
    LET name == method_name(method.type)
    IN  [methods |-> (name :> method) @@ registry,
         out |-> IF name \in DOMAIN registry THEN Some(registry[name]) ELSE None]

\* Mutant: an unknown name falls back to a method the registry does hold.
DIDMethods_get_fallback(registry, method_name_) ==
    IF method_name_ \in DOMAIN registry THEN Some(registry[method_name_])
    ELSE IF DOMAIN registry = {} THEN None
    ELSE Some(registry[CHOOSE n \in DOMAIN registry : TRUE])

\* DIDMethods::get
DIDMethods_get(registry, method_name_) ==
    IF method_name_ \in DOMAIN registry THEN Some(registry[method_name_]) ELSE None

(***************************************************************************)
(* DID_METHODS: the registry in a once_cell Lazy.                          *)
(***************************************************************************)
\* did_ion::DIDION, the Sidetree client of the ION parameters.
DIDION_new(api_url_opt) == SidetreeClient_new(api_url_opt)

\* std::env::var("DID_ION_API_URL") and what the initializer makes of it.
EnvVars == {"Ok", "NotPresent", "NotUnicode"}

api_url_of(env) == IF env = "Ok" THEN Some("https://ion.example/") ELSE None

Threads == 1..MaxThreads

\* Mutant: any thread that finds the cell not yet complete runs the closure.
claims_initialization_racy(state) == state # "Complete"

\* Lazy::force on a cell that is not complete: the thread that moves it from
\* Incomplete to Running runs the closure; every other thread waits.
claims_initialization(state) == state = "Incomplete"

(***************************************************************************)
(* The command line: didkit did create.                                    *)
(***************************************************************************)
\* The place of the first "=" in s, 0 when it has none.
find_eq(s) ==
    LET at == { i \in 1..Len(s) : SubSeq(s, i, i) = "=" }
    IN  IF at = {} THEN 0 ELSE CHOOSE i \in at : \A j \in at : i <= j

MetadataProperty(name, value) == [name |-> name, value |-> value]

\* impl FromStr for MetadataProperty: s.splitn(2, '='); a name alone is true.
MetadataProperty_from_str(s) ==
    LET eq == find_eq(s)
    IN  IF eq > 0
        THEN Ok(MetadataProperty(SubSeq(s, 1, eq - 1),
                                 JString(SubSeq(s, eq + 1, Len(s)))))
        ELSE Ok(MetadataProperty(s, JBool(TRUE)))

\* The map after the first n properties have been folded in.
RECURSIVE metadata_fold(_, _)
metadata_fold(meta_props, n) ==
    IF n = 0 THEN <<>>
    ELSE LET map == metadata_fold(meta_props, n - 1)
             prop == meta_props[n]
             value == prop.value
         IN  IF prop.name \notin DOMAIN map
             THEN (prop.name :> value) @@ map
             ELSE LET old == map[prop.name]
                  IN  CASE old.type = "Null" ->
                             [map EXCEPT ![prop.name] = value]
                        [] old.type = "Array" ->
                             [map EXCEPT ![prop.name] = JArray(Append(old.v, value))]
                        [] OTHER ->
                             [map EXCEPT ![prop.name] = JArray(<<old, value>>)]

\* Mutant: a repeated name keeps only its latest value.
metadata_properties_to_value_overwriting(meta_props) ==
    Ok(JObject([name \in { meta_props[i].name : i \in 1..Len(meta_props) } |->
        meta_props[CHOOSE i \in 1..Len(meta_props) :
                      /\ meta_props[i].name = name
                      /\ \A j \in (i + 1)..Len(meta_props) :
                            meta_props[j].name # name].value]))

metadata_properties_to_value(meta_props) ==
    Ok(JObject(metadata_fold(meta_props, Len(meta_props))))

\* #[derive(Serialize)] #[serde(rename_all = "camelCase")] DIDMethodTransaction
DIDMethodTransaction_to_value(tx) ==
    JObject((camel_case("did_method") :> JString(tx.did_method))
            @@ (camel_case("value") :> tx.value))

\* The messages of a DIDMethodError and of its sources, outermost first.
DIDMethodError_chain(e) ==
    CASE e.kind = "NotImplemented" ->
            <<"Not implemented for DID method: " \o e.what>>
      [] e.kind = "OptionNotSupported" ->
            <<"Option '" \o e.option \o "' not supported for DID operation '"
                \o e.operation \o "'">>
      [] e.kind = "Other" -> e.chain

DidCreateArgs(method, verification_key, update_key, recovery_key, options) ==
    [method |-> method,
     secret |-> None,
     verification_key |-> verification_key,
     update_key |-> update_key,
     recovery_key |-> recovery_key,
     options |-> options]

\* Mutant: a method whose create failed is taken out of the registry.
cli_create_evicting(registry, args) ==
    LET method == DIDMethods_get(registry, args.method)
    IN  IF ~is_some(method)
        THEN [v |-> Err(anyhow("Unable to get DID method")), stdout |-> None,
              called |-> None, request |-> None, freed |-> {},
              methods |-> registry]
        ELSE [v |-> Err(anyhow("DID Create failed")), stdout |-> None,
              called |-> method, request |-> None, freed |-> {},
              methods |-> [n \in DOMAIN registry \ {args.method} |-> registry[n]]]

\* cli::did::create, run against a registry.  v is its Result, stdout the
\* JSON it printed, called the implementation whose create it called,
\* methods the registry as the call leaves it (it only borrows the registry).
\* The folded options are always an object, so their conversion to the
\* request's map cannot fail.
cli_create(registry, args) ==
    LET method == DIDMethods_get(registry, args.method)
        options == context(metadata_properties_to_value(args.options),
                           "Parse options for DID Create")
        request == DIDCreate(None, None, None, options.v.v)
        created(r) ==
            IF ~r.v.ok
            THEN [v |-> Err(<<"DID Create failed">> \o DIDMethodError_chain(r.v.e)),
                  stdout |-> None, called |-> method, request |-> Some(request),
                  freed |-> r.freed, methods |-> registry]
            ELSE [v |-> Ok(<<>>),
                  stdout |-> Some(DIDMethodTransaction_to_value(r.v.v)),
                  called |-> method, request |-> Some(request),
                  freed |-> r.freed, methods |-> registry]
    IN  IF ~is_some(method)
        THEN [v |-> Err(anyhow("Unable to get DID method")), stdout |-> None,
              called |-> None, request |-> None, freed |-> {},
              methods |-> registry]
        ELSE IF ~options.ok
        THEN [v |-> options, stdout |-> None, called |-> None, request |-> None,
              freed |-> {}, methods |-> registry]
        ELSE created(method_create(unwrap(method).type, request))

(***************************************************************************)
(* The inputs a caller can hand in.                                        *)
(***************************************************************************)
OptionValues ==
    [network |-> JString("testnet"),
     anchorOrigin |-> JString("a\"b"),
     Zone |-> JBool(TRUE)]

\* Every option set: a map from some of the names to their values.
OptionMaps ==
    { [n \in names |-> OptionValues[n]] : names \in SUBSET (DOMAIN OptionValues) }

\* -o arguments as typed on the command line.
OptionArgs == {"network=testnet", "network", "network=a=b", "Zone=x", "=v"}

\* The JWK file arguments of a create command: -v, -u, -r.
\* The key files on disk: two that hold different keys, and a third.
KeyFiles ==
    [n \in {"verification.jwk", "update.jwk", "recovery.jwk"} |->
        CHOOSE jwk \in JWKs :
            /\ is_some(jwk.d)
            /\ (n = "update.jwk") = (jwk.x = <<4, 210, 7>>)]

\* read_jwk_file_opt: no path gives no key; a path is opened and parsed.
read_jwk_file_opt(pathbuf_opt) ==
    IF ~is_some(pathbuf_opt) THEN Ok(None)
    ELSE IF unwrap(pathbuf_opt) \notin DOMAIN KeyFiles
    THEN Err(<<"Opening JWK file">>)
    ELSE Ok(Some(KeyFiles[unwrap(pathbuf_opt)]))

KeyFileChoices ==
    { <<None, None, None>>,
      <<Some("verification.jwk"), Some("update.jwk"), Some("recovery.jwk")>> }

\* clap's parse of the -o arguments, each through FromStr.
parse_options(argv) == [i \in 1..Len(argv) |-> MetadataProperty_from_str(argv[i]).v]

\* Entries and patches of every kind, for operations built by hand.
EntryValues ==
    <<PublicKeyEntry("key-1", "JsonWebSignature2020", None,
                     PublicKey_Jwk(CHOOSE pk \in PublicKeyJwks : ~has_member(pk.jwk, "d")),
                     <<"Authentication", "AssertionMethod", "KeyAgreement",
                       "CapabilityInvocation", "CapabilityDelegation">>),
      PublicKeyEntry("key-2", "Multikey", Some("did:ion:abc"),
                     PublicKey_Multibase("z6Mk"), <<>>)>>

ServiceValues ==
    <<ServiceEndpointEntry("svc-1", "LinkedDomains",
                           ServiceEndpoint_URI("https://a.example/")),
      ServiceEndpointEntry("svc-2", "Hub",
                           ServiceEndpoint_Map(JObject([origins |->
                                JArray(<<JString("https://b.example/")>>)])))>>

AllPatchValues ==
    <<AddPublicKeys(EntryValues),
      RemovePublicKeys(<<"key-1">>),
      AddServices(ServiceValues),
      RemoveServices(<<"svc-1", "svc-2">>),
      Replace(DocumentState(Some(<<EntryValues[1]>>), None)),
      IetfJsonPatch(<<PatchOperation_add("/a", JBool(TRUE)),
                      PatchOperation_remove("/b")>>),
      Replace(DocumentState(None, Some(<<>>))),
      AddPublicKeys(<<>>)>>

\* Create operations: every patch list up to the bound, and the list of all
\* the patches; type and anchor_origin present or not.
CreateOperations ==
    { [variant |-> "Create",
       create |-> [delta |-> [patches |-> patches,
                              update_commitment |-> "EiAupdate"],
                   suffix_data |-> [type |-> type,
                                    delta_hash |-> "EiAdelta",
                                    recovery_commitment |-> "EiArecovery",
                                    anchor_origin |-> anchor_origin]]] :
        patches \in SeqsUpTo({ AllPatchValues[i] : i \in 1..Len(AllPatchValues) },
                             MaxPatches) \cup {AllPatchValues},
        type \in {None, Some("custom")},
        anchor_origin \in {None, Some("origin-1")} }

ByteSamples == {0, 1, 127, 255}

ByteStrings == SeqsUpTo(ByteSamples, MaxData)

option_jwks(bag) == {None} \cup { Some(jwk) : jwk \in BagToSet(bag) }

bag_of(o) == IF is_some(o) THEN SetToBag({unwrap(o)}) ELSE EmptyBag

(***************************************************************************)
(* The state machine.                                                      *)
(***************************************************************************)
Init ==
    /\ keys = EmptyBag
    /\ freed = {}
    /\ ret = [op |-> "none"]
    /\ methods = DIDMethods_default
    /\ inserted = <<>>
    /\ cell = [state |-> "Incomplete", value |-> None, inits |-> 0, late |-> 0]
    /\ threads = [t \in Threads |-> [pc |-> "start", local |-> <<>>, seen |-> None]]

\* The caller is sequential: it makes a call when it holds no result, and
\* lets go of the result before the next call.
Idle == ret.op = "none"

Discard ==
    /\ ~Idle
    /\ ret' = [op |-> "none"]
    /\ freed' = {}
    /\ UNCHANGED <<keys, registry_vars, lazy_vars>>

\* The caller comes to own a JWK value (a struct it builds or parses).
NewJwk(jwk) ==
    /\ Idle
    /\ BagCardinality(keys) < MaxKeys
    /\ keys' = keys (+) SetToBag({jwk})
    /\ UNCHANGED <<freed, ret, registry_vars, lazy_vars>>

\* A JWK the caller owns goes out of scope.
DropJwk(jwk) ==
    /\ Idle
    /\ BagIn(jwk, keys)
    /\ keys' = keys (-) SetToBag({jwk})
    /\ freed' = drop_jwk(jwk)
    /\ ret' = [op |-> "drop", jwk |-> jwk]
    /\ UNCHANGED <<registry_vars, lazy_vars>>

\* PublicKeyJwk::try_from(jwk) on a JWK the caller owns.
TryFrom(jwk) ==
    /\ Idle
    /\ BagIn(jwk, keys)
    /\ keys' = keys (-) SetToBag({jwk})
    /\ LET r == PublicKeyJwk_try_from(jwk)
       IN  /\ freed' = r.freed
           /\ ret' = [op |-> "try_from", jwk |-> jwk, out |-> r.v]
    /\ UNCHANGED <<registry_vars, lazy_vars>>

\* method.create(DIDCreate { .. }): the keys are moved out of the caller's hands.
Create(method, options) ==
    /\ Idle
    /\ \E update_key \in option_jwks(keys) :
       \E recovery_key \in option_jwks(keys (-) bag_of(update_key)) :
       \E verification_key \in
            option_jwks((keys (-) bag_of(update_key)) (-) bag_of(recovery_key)) :
        LET create == DIDCreate(update_key, recovery_key, verification_key, options)
            returned(r) ==
                /\ freed' = r.freed
                /\ ret' = [op |-> "create", method |-> method, create |-> create,
                           out |-> r.v]
        IN  /\ keys' = ((keys (-) bag_of(update_key)) (-) bag_of(recovery_key))
                            (-) bag_of(verification_key)
            /\ returned(method_create(method, create))
    /\ UNCHANGED <<registry_vars, lazy_vars>>

\* JWK::generate_secp256k1(): the caller comes to own the generated key.
GenerateSecp256k1(secret_key) ==
    /\ Idle
    /\ BagCardinality(keys) < MaxKeys
    /\ LET returned(r) ==
            /\ keys' = IF r.v.ok THEN keys (+) SetToBag({r.v.v}) ELSE keys
            /\ freed' = r.freed
            /\ ret' = [op |-> "generate", secret_key |-> secret_key, out |-> r.v]
       IN  returned(generate_secp256k1(secret_key))
    /\ UNCHANGED <<registry_vars, lazy_vars>>

\* didkit key generate secp256k1
KeyGenerate(secret_key) ==
    /\ Idle
    /\ LET returned(r) ==
            /\ freed' = r.freed
            /\ ret' = [op |-> "key_generate", secret_key |-> secret_key,
                       panic |-> r.panic, stdout |-> r.stdout]
       IN  returned(key_generate(secret_key))
    /\ UNCHANGED <<keys, registry_vars, lazy_vars>>

\* An operation of the capability contract asked of a method.
CapabilityOperations == {"create", "update", "recover", "deactivate"}

CallOperation(method, operation) ==
    /\ Idle
    /\ ret' = [op |-> "operation", method |-> method, operation |-> operation,
               out |-> method_call(method, operation,
                                   DIDCreate(None, None, None, <<>>))]
    /\ UNCHANGED <<keys, freed, registry_vars, lazy_vars>>

Next ==
    \/ \E method \in Methods, operation \in CapabilityOperations :
            CallOperation(method, operation)
    \/ \E jwk \in JWKs : NewJwk(jwk)
    \/ \E jwk \in JWKs : DropJwk(jwk)
    \/ \E jwk \in JWKs : TryFrom(jwk)
    \/ \E secret_key \in KeyMaterial : GenerateSecp256k1(secret_key)
    \/ \E secret_key \in KeyMaterial : KeyGenerate(secret_key)
    \/ \E method \in Methods, options \in OptionMaps : Create(method, options)
    \/ Discard

Spec == Init /\ [][Next]_vars

(***************************************************************************)
(* The Sidetree functions applied to inputs drawn from the sets above.     *)
(***************************************************************************)
CallCreateExisting(update_pk, recovery_pk, patches) ==
    /\ Idle
    /\ ret' = [op |-> "create_existing",
               update_pk |-> update_pk,
               recovery_pk |-> recovery_pk,
               patches |-> patches,
               out |-> create_existing(update_pk, recovery_pk, patches)]
    /\ UNCHANGED <<keys, freed, registry_vars, lazy_vars>>

CallCommitmentScheme(pkjwk) ==
    /\ Idle
    /\ ret' = [op |-> "commitment_scheme",
               pkjwk |-> pkjwk,
               out |-> commitment_scheme(pkjwk)]
    /\ UNCHANGED <<keys, freed, registry_vars, lazy_vars>>

CallHash(data) ==
    /\ Idle
    /\ ret' = [op |-> "hash",
               data |-> data,
               hash |-> hash(data),
               hash_protocol |-> hash_protocol(data),
               hash_algorithm |-> hash_algorithm(data)]
    /\ UNCHANGED <<keys, freed, registry_vars, lazy_vars>>

NextSidetree ==
    \/ \E u \in PublicKeyJwks, r \in PublicKeyJwks, p \in PatchLists :
            CallCreateExisting(u, r, p)
    \/ \E pk \in PublicKeyJwks : CallCommitmentScheme(pk)
    \/ \E data \in ByteStrings : CallHash(data)
    \/ Discard

SpecSidetree == Init /\ [][NextSidetree]_vars

(***************************************************************************)
(* A registry in use: inserts, lookups, and the command line's create.     *)
(***************************************************************************)
MethodNames == {"web", "ion", "key"}

Insert(method) ==
    /\ Idle
    /\ Len(inserted) < MaxInserts
    /\ LET r == DIDMethods_insert(methods, method)
       IN  /\ methods' = r.methods
           /\ ret' = [op |-> "insert", method |-> method, out |-> r.out]
    /\ inserted' = Append(inserted, method)
    /\ UNCHANGED <<keys, freed, lazy_vars>>

Get(name) ==
    /\ Idle
    /\ ret' = [op |-> "get", name |-> name, out |-> DIDMethods_get(methods, name)]
    /\ UNCHANGED <<keys, freed, registry_vars, lazy_vars>>

\* didkit did create <method> [-v file] [-u file] [-r file] [-o name=value]...
CliCreate(method, files, argv) ==
    /\ Idle
    /\ LET args == DidCreateArgs(method, files[1], files[2], files[3],
                                 parse_options(argv))
           returned(r) ==
                /\ ret' = [op |-> "cli_create", args |-> args, before |-> methods,
                           out |-> r.v, stdout |-> r.stdout, called |-> r.called,
                           request |-> r.request]
                /\ freed' = r.freed
                /\ methods' = r.methods
       IN  returned(cli_create(methods, args))
    /\ UNCHANGED <<keys, inserted, lazy_vars>>

NextRegistry ==
    \/ \E method \in Implementations : Insert(method)
    \/ \E name \in MethodNames : Get(name)
    \/ \E method \in MethodNames, files \in KeyFileChoices,
          argv \in SeqsUpTo(OptionArgs, MaxCreateOptions) :
            CliCreate(method, files, argv)
    \/ Discard

SpecRegistry == Init /\ [][NextRegistry]_vars

(***************************************************************************)
(* The option folding applied to argument lists.                           *)
(***************************************************************************)
ParseOptions(argv) ==
    /\ Idle
    /\ ret' = [op |-> "options", argv |-> argv,
               meta_props |-> parse_options(argv),
               out |-> metadata_properties_to_value(parse_options(argv))]
    /\ UNCHANGED <<keys, freed, registry_vars, lazy_vars>>

NextCli ==
    \/ \E argv \in SeqsUpTo(OptionArgs, MaxOptions) : ParseOptions(argv)
    \/ Discard

SpecCli == Init /\ [][NextCli]_vars

(***************************************************************************)
(* Operations written as JSON and read back.                               *)
(***************************************************************************)
RoundTrip(operation) ==
    /\ Idle
    /\ LET returned(json) ==
            ret' = [op |-> "round_trip", operation |-> operation, json |-> json,
                    parsed |-> Operation_from_value(json)]
       IN  returned(Operation_to_value(operation))
    /\ UNCHANGED <<keys, freed, registry_vars, lazy_vars>>

NextSerde ==
    \/ \E operation \in CreateOperations : RoundTrip(operation)
    \/ Discard

SpecSerde == Init /\ [][NextSerde]_vars

(***************************************************************************)
(* Threads reaching for DID_METHODS.  cell.inits counts the runs of the     *)
(* initializer, cell.late the inserts made after some lookup had returned. *)
(***************************************************************************)
\* Deref of the Lazy: the first step of DID_METHODS.get(..).
Force(t) ==
    /\ threads[t].pc = "start"
    /\ IF cell.state = "Complete"
       THEN /\ threads' = [threads EXCEPT ![t].pc = "get"]
            /\ UNCHANGED cell
       ELSE IF claims_initialization(cell.state)
       THEN /\ cell' = [cell EXCEPT !.state = "Running", !.inits = @ + 1]
            /\ threads' = [threads EXCEPT ![t].pc = "insert_web",
                                          ![t].local = DIDMethods_default]
       ELSE /\ threads' = [threads EXCEPT ![t].pc = "wait"]
            /\ UNCHANGED cell
    /\ UNCHANGED <<keys, freed, ret, registry_vars>>

lookup_returned == \E t \in Threads : threads[t].pc = "done"

\* methods.insert(Box::new(DIDWEB))
InitInsertWeb(t) ==
    /\ threads[t].pc = "insert_web"
    /\ threads' = [threads EXCEPT
            ![t].local = DIDMethods_insert(@, unit_method("DIDWEB")).methods,
            ![t].pc = "insert_ion"]
    /\ cell' = [cell EXCEPT !.late = IF lookup_returned THEN @ + 1 ELSE @]
    /\ UNCHANGED <<keys, freed, ret, registry_vars>>

\* DIDION::new(the API URL of the environment); methods.insert(Box::new(DIDION))
InitInsertIon(t, env) ==
    /\ threads[t].pc = "insert_ion"
    /\ threads' = [threads EXCEPT
            ![t].local = DIDMethods_insert(@, DIDION_new(api_url_of(env))).methods,
            ![t].pc = "publish"]
    /\ cell' = [cell EXCEPT !.late = IF lookup_returned THEN @ + 1 ELSE @]
    /\ UNCHANGED <<keys, freed, ret, registry_vars>>

\* The closure returns: the cell takes the value and becomes Complete.
Publish(t) ==
    /\ threads[t].pc = "publish"
    /\ cell' = [cell EXCEPT !.state = "Complete", !.value = Some(threads[t].local)]
    /\ threads' = [threads EXCEPT ![t].pc = "get"]
    /\ UNCHANGED <<keys, freed, ret, registry_vars>>

\* A waiting thread is woken once the cell is Complete.
Wake(t) ==
    /\ threads[t].pc = "wait"
    /\ cell.state = "Complete"
    /\ threads' = [threads EXCEPT ![t].pc = "get"]
    /\ UNCHANGED <<keys, freed, ret, registry_vars, cell>>

\* DIDMethods::get on the value of the cell.
Lookup(t, name) ==
    /\ threads[t].pc = "get"
    /\ threads' = [threads EXCEPT
            ![t].seen = Some([names |-> DOMAIN unwrap(cell.value),
                              name |-> name,
                              out |-> DIDMethods_get(unwrap(cell.value), name)]),
            ![t].pc = "done"]
    /\ UNCHANGED <<keys, freed, ret, registry_vars, cell>>

NextLazy ==
    \/ \E t \in Threads : Force(t)
    \/ \E t \in Threads : InitInsertWeb(t)
    \/ \E t \in Threads, env \in EnvVars : InitInsertIon(t, env)
    \/ \E t \in Threads : Publish(t)
    \/ \E t \in Threads : Wake(t)
    \/ \E t \in Threads, name \in MethodNames : Lookup(t, name)

SpecLazy == Init /\ [][NextLazy]_vars

(***************************************************************************)
(* Properties.                                                             *)
(***************************************************************************)
all_zero(bytes) == \A i \in 1..Len(bytes) : bytes[i] = 0

canonical_bytes(pkjwk) == as_bytes(jcs_value(PublicKeyJwk_to_value(pkjwk)))

CreateExistingReturned == ret.op = "create_existing"
ClientCreateReturned == ret.op = "create" /\ ret.method = "SidetreeClient"

\* C1: create_existing on two structurally equal public keys, with any patch
\* list, returns the error "Update and recovery public key JWK payload must
\* be different.", returns no Operation, and has computed no digest by then.
C1_EqualKeysRejected ==
    (CreateExistingReturned /\ ret.update_pk = ret.recovery_pk)
        => /\ ~ret.out.ok
           /\ ret.out.e = <<KeysMustDiffer>>
           /\ ret.out.hashed = 0

C1_Witness ==
    /\ CreateExistingReturned
    /\ ret.update_pk = ret.recovery_pk
    /\ Len(ret.patches) = MaxPatches
    /\ ~ret.out.ok

\* C2: create_existing on different keys U, R and a patch list P returns
\* Operation::Create with delta.update_commitment = commitment_scheme(U),
\* suffix_data.recovery_commitment = commitment_scheme(R), and delta.patches
\* equal to P, element for element.
C2_CommitmentsAndPatches ==
    (CreateExistingReturned /\ ret.update_pk # ret.recovery_pk)
        => /\ ret.out.ok
           /\ ret.out.v.variant = "Create"
           /\ ret.out.v.create.delta.update_commitment
                = commitment_scheme(ret.update_pk).v
           /\ ret.out.v.create.suffix_data.recovery_commitment
                = commitment_scheme(ret.recovery_pk).v
           /\ ret.out.v.create.delta.patches = ret.patches

C2_Witness ==
    /\ CreateExistingReturned
    /\ ret.out.ok
    /\ Len(ret.patches) = MaxPatches
    /\ ret.patches[1] # ret.patches[MaxPatches]
    /\ ret.out.v.create.delta.update_commitment
         # ret.out.v.create.suffix_data.recovery_commitment

\* C3: in every operation create_existing returns, suffix_data.delta_hash is
\* hash(JCS(delta)) of the delta in that same operation, and suffix_data's
\* type and anchor_origin are absent.
C3_DeltaHash ==
    (CreateExistingReturned /\ ret.out.ok)
        => LET create == ret.out.v.create
           IN  /\ create.suffix_data.delta_hash
                    = hash(as_bytes(jcs_value(Delta_to_value(create.delta))))
               /\ create.suffix_data.type = None
               /\ create.suffix_data.anchor_origin = None
               /\ DOMAIN SuffixData_to_value(create.suffix_data).v
                    = {"deltaHash", "recoveryCommitment"}

C3_Witness ==
    /\ CreateExistingReturned
    /\ ret.out.ok
    /\ ret.patches # <<>>
    /\ ret.out.v.create.suffix_data.delta_hash
         # hash(as_bytes(jcs_value(Delta_to_value(
                [ret.out.v.create.delta EXCEPT !.patches = <<>>]))))

\* C4: commitment_scheme(pk) is hash(hash_algorithm(JCS(pk))): the raw digest
\* of the canonical key is the reveal value, and the commitment is the
\* prefixed, encoded hash of the reveal value.  It is neither hash(JCS(pk))
\* nor an encoding of an unprefixed digest.
C4_TwoStageCommitment ==
    ret.op = "commitment_scheme"
        => LET canonical == canonical_bytes(ret.pkjwk)
               reveal_value == hash_algorithm(canonical)
           IN  /\ ret.out.ok
               /\ ret.out.v = hash(reveal_value)
               /\ ret.out.v # hash(canonical)
               /\ ret.out.v # data_encoding_scheme(hash_algorithm(reveal_value))
               /\ ret.out.v # data_encoding_scheme(reveal_value)
               /\ ret.out.hashed = 2

C4_Witness ==
    /\ ret.op = "commitment_scheme"
    /\ ret.out.ok
    /\ has_member(ret.pkjwk.jwk, "x")
    /\ Len(ret.out.v) = 46

\* C5: hash_protocol(d) is the two bytes 0x12, 0x20 followed by
\* hash_algorithm(d); hash(d) is the unpadded base64url text of
\* hash_protocol(d); and both digests are the one hash_protocol_algorithm(d)
\* computes.
C5_PrefixedAndRawAgree ==
    ret.op = "hash"
        => /\ ret.hash_protocol = <<18, 32>> \o ret.hash_algorithm
           /\ ret.hash_algorithm = hash_protocol_algorithm(ret.data)[2]
           /\ SubSeq(ret.hash_protocol, 3, Len(ret.hash_protocol))
                = hash_protocol_algorithm(ret.data)[2]
           /\ ret.hash = base64_encode_config(ret.hash_protocol)
           /\ Len(ret.hash) = 46
           /\ \A i \in 1..Len(ret.hash) :
                \E n \in 0..63 : SubSeq(ret.hash, i, i) = sextet(n)

C5_Witness ==
    /\ ret.op = "hash"
    /\ Len(ret.data) = MaxData
    /\ Len(ret.hash_algorithm) = 32
    /\ SubSeq(ret.hash, 1, 2) = "Ei"

\* C7: PublicKeyJwk::try_from on any JWK, one with its private scalar d
\* included, fails or yields a value whose JSON has no "d" member.
C7_NoPrivateMember ==
    (ret.op = "try_from" /\ ret.out.ok) => ~has_member(ret.out.v.jwk, "d")

\* C8: every JWK with a private scalar that a call destroyed (dropped by the
\* caller, consumed by a conversion, or moved into a create that returned a
\* transaction or any error) has had the scalar's buffer released, and every
\* released buffer of an ECParams holds zeros only.
destroyed ==
    CASE ret.op \in {"drop", "try_from"} -> {ret.jwk}
      [] ret.op = "create" ->
            { unwrap(o) : o \in { k \in { ret.create.update_key,
                                          ret.create.recovery_key,
                                          ret.create.verification_key } : is_some(k) } }
      [] OTHER -> {}

C8_ScalarZeroedOnDrop ==
    /\ \A b \in freed : b.owner = "ECParams.ecc_private_key" => all_zero(b.bytes)
    /\ \A jwk \in destroyed :
          is_some(jwk.d) =>
              \E b \in freed : /\ b.owner = "ECParams.ecc_private_key"
                               /\ Len(b.bytes) = Len(unwrap(jwk.d))
                               /\ all_zero(b.bytes)

C8_Witness ==
    /\ ret.op = "create"
    /\ ~ret.out.ok
    /\ ret.out.e.kind = "Other"
    /\ is_some(ret.create.update_key)
    /\ is_some(unwrap(ret.create.update_key).d)
    /\ \E b \in freed : b.owner = "ECParams.ecc_private_key"

\* C9: a create on an "ion" method (the Sidetree client, or DIDIon) with a
\* non-empty option set fails with OptionNotSupported for operation "create",
\* naming the first option of the request, the least key of its option map,
\* and returns no transaction.
C9_OptionNotSupported ==
    (ret.op = "create" /\ method_name(ret.method) = "ion"
        /\ DOMAIN ret.create.options # {})
        => /\ ~ret.out.ok
           /\ ret.out.e.kind = "OptionNotSupported"
           /\ ret.out.e.operation = "create"
           /\ ret.out.e.option \in DOMAIN ret.create.options
           /\ \A o \in DOMAIN ret.create.options \ {ret.out.e.option} :
                str_less(ret.out.e.option, o)
           /\ "Zone" \in DOMAIN ret.create.options => ret.out.e.option = "Zone"

C9_Witness ==
    /\ ClientCreateReturned
    /\ DOMAIN ret.create.options = {"network", "anchorOrigin"}
    /\ is_some(ret.create.update_key)
    /\ is_some(ret.create.recovery_key)
    /\ ~ret.out.ok
    /\ ret.out.e.option = "anchorOrigin"

\* C10: a create on the Sidetree client with no options and the update key or
\* the recovery key absent fails with a "missing required key" error (the
\* update key's when that one is absent) and returns no transaction; a
\* transaction is returned only when both keys are present.
C10_MissingKey ==
    (ClientCreateReturned /\ DOMAIN ret.create.options = {})
        => /\ ~is_some(ret.create.update_key)
                => /\ ~ret.out.ok
                   /\ ret.out.e = Other(<<"Prepare keys for DID creation",
                                          "Missing required update key">>)
           /\ (is_some(ret.create.update_key) /\ ~is_some(ret.create.recovery_key))
                => /\ ~ret.out.ok
                   /\ ret.out.e = Other(<<"Prepare keys for DID creation",
                                          "Missing required recovery key">>)
           /\ ret.out.ok
                => /\ is_some(ret.create.update_key)
                   /\ is_some(ret.create.recovery_key)

C10_Witness ==
    /\ ClientCreateReturned
    /\ DOMAIN ret.create.options = {}
    /\ is_some(ret.create.update_key)
    /\ ~is_some(ret.create.recovery_key)
    /\ ~ret.out.ok

\* The implementation most recently handed to insert, among the first n
\* inserts, whose name() is name; None when there is none.
last_inserted(name, n) ==
    LET at == { i \in 1..n : method_name(inserted[i].type) = name }
    IN  IF at = {} THEN None
        ELSE Some(inserted[CHOOSE i \in at : \A j \in at : j <= i])

\* C11: after any sequence of inserts, get(n) is the implementation most
\* recently inserted under the name n (None when none was); an insert returns
\* the implementation it displaced, or None when the name was free; and the
\* registry holds one implementation for each name ever inserted.
C11_LastRegisteredWins ==
    /\ \A n \in MethodNames :
          DIDMethods_get(methods, n) = last_inserted(n, Len(inserted))
    /\ DOMAIN methods = { method_name(inserted[i].type) : i \in 1..Len(inserted) }
    /\ ret.op = "insert" =>
          ret.out = last_inserted(method_name(ret.method.type), Len(inserted) - 1)
    /\ ret.op = "get" => ret.out = last_inserted(ret.name, Len(inserted))

C11_Witness ==
    /\ ret.op = "insert"
    /\ Len(inserted) = MaxInserts
    /\ is_some(ret.out)
    /\ unwrap(ret.out) # ret.method
    /\ unwrap(ret.out) = inserted[1]
    /\ Cardinality(DOMAIN methods) = 2

inserted_names == { method_name(inserted[i].type) : i \in 1..Len(inserted) }

\* C12: looking up a name that was never inserted returns None, and the
\* command line's create for such a name fails with "Unable to get DID
\* method", having called no method's create and printed no transaction.
C12_UnknownMethod ==
    /\ (ret.op = "get" /\ ret.name \notin inserted_names) => ret.out = None
    /\ (ret.op = "cli_create" /\ ret.args.method \notin inserted_names)
          => /\ ~ret.out.ok
             /\ ret.out.e = <<"Unable to get DID method">>
             /\ ret.called = None
             /\ ret.stdout = None

C12_Witness ==
    /\ ret.op = "cli_create"
    /\ ret.args.method = "key"
    /\ inserted_names = {"web", "ion"}
    /\ Len(ret.args.options) = MaxCreateOptions
    /\ ~ret.out.ok

\* C13: a create, whether it returned Ok or any error, leaves the registry
\* as it found it: the same names, and under each name the same
\* implementation with the same configuration.
C13_CreateLeavesRegistry ==
    ret.op = "cli_create"
        => /\ DOMAIN methods = DOMAIN ret.before
           /\ \A n \in DOMAIN methods : methods[n] = ret.before[n]

C13_Witness ==
    /\ ret.op = "cli_create"
    /\ ~ret.out.ok
    /\ is_some(ret.called)
    /\ unwrap(ret.called).type = "SidetreeClient"
    /\ is_some(unwrap(ret.called).endpoint)
    /\ Cardinality(DOMAIN methods) = 2

\* C14: a create that succeeds returns a transaction whose did_method is the
\* name() of the method that made it; the Sidetree client's value is the
\* object with the one member sidetreeOperation.
C14_TaggedWithMethodName ==
    (ret.op = "create" /\ ret.out.ok)
        => /\ ret.out.v.did_method = method_name(ret.method)
           /\ ret.method = "SidetreeClient"
                => /\ ret.out.v.value.type = "Object"
                   /\ DOMAIN ret.out.v.value.v = {"sidetreeOperation"}

\* C15: the transaction the command line prints is a JSON object with the
\* two members did_method and value.
C15_EnvelopeMembers ==
    (ret.op = "cli_create" /\ is_some(ret.stdout))
        => /\ unwrap(ret.stdout).type = "Object"
           /\ DOMAIN unwrap(ret.stdout).v = {"did_method", "value"}

\* The places of name among the folded properties, and the k-th of them.
occurrences(name) ==
    { i \in 1..Len(ret.meta_props) : ret.meta_props[i].name = name }

occurrence(name, k) ==
    CHOOSE i \in occurrences(name) :
        Cardinality({ j \in occurrences(name) : j < i }) = k - 1

scalar_eq(a, b) == a.type = b.type /\ a.v = b.v

\* C17: folding a list of name/value pairs gives an object whose keys are the
\* distinct names; a name that occurs once has its value, and a name that
\* occurs n >= 2 times has the array of its n values in order of occurrence.
C17_RepeatedNamesAccumulate ==
    ret.op = "options"
        => /\ ret.out.ok
           /\ ret.out.v.type = "Object"
           /\ DOMAIN ret.out.v.v =
                { ret.meta_props[i].name : i \in 1..Len(ret.meta_props) }
           /\ \A name \in DOMAIN ret.out.v.v :
                LET n == Cardinality(occurrences(name))
                    folded == ret.out.v.v[name]
                IN  IF n = 1
                    THEN scalar_eq(folded, ret.meta_props[occurrence(name, 1)].value)
                    ELSE /\ folded.type = "Array"
                         /\ Len(folded.v) = n
                         /\ \A k \in 1..n :
                              scalar_eq(folded.v[k],
                                        ret.meta_props[occurrence(name, k)].value)

C17_Witness ==
    /\ ret.op = "options"
    /\ Len(ret.argv) = MaxOptions
    /\ Cardinality(DOMAIN ret.out.v.v) = 1
    /\ "network" \in DOMAIN ret.out.v.v
    /\ ret.out.v.v["network"].type = "Array"
    /\ ret.out.v.v["network"].v[1].type = "Bool"
    /\ ret.out.v.v["network"].v[2].type = "String"

\* C16: a Create operation written as JSON and read back is the operation
\* that was written, whichever of the six patch actions its delta holds;
\* each action is written in kebab-case, and a suffix-data type or
\* anchorOrigin that is absent is not written.
C16_RoundTrip ==
    ret.op = "round_trip"
        => /\ ret.parsed.ok
           /\ ret.parsed.v = ret.operation
           /\ \A i \in 1..Len(ret.operation.create.delta.patches) :
                ret.json.v["delta"].v["patches"].v[i].v["action"].v \in
                    {"add-public-keys", "remove-public-keys", "add-services",
                     "remove-services", "replace", "ietf-json-patch"}
           /\ ~is_some(ret.operation.create.suffix_data.type)
                => "type" \notin DOMAIN ret.json.v["suffixData"].v
           /\ ~is_some(ret.operation.create.suffix_data.anchor_origin)
                => "anchorOrigin" \notin DOMAIN ret.json.v["suffixData"].v

C16_Witness ==
    /\ ret.op = "round_trip"
    /\ ret.parsed.ok
    /\ { ret.operation.create.delta.patches[i].action :
            i \in 1..Len(ret.operation.create.delta.patches) } = PatchActions
    /\ ~is_some(ret.operation.create.suffix_data.type)
    /\ ~is_some(ret.operation.create.suffix_data.anchor_origin)

\* C18: an operation of the capability contract that a method does not
\* implement itself returns the NotImplemented error as a value: not a
\* transaction, not another kind of error, and not nothing.
C18_NotImplemented ==
    (ret.op = "operation" /\ ret.operation \notin {"create"})
        => /\ is_some(ret.out)
           /\ ~unwrap(ret.out).ok
           /\ unwrap(ret.out).e.kind = "NotImplemented"

\* C19: however the threads that reach for DID_METHODS interleave, the
\* initializer runs once, a lookup sees the registry with both "web" and
\* "ion" in it, and no insert is made after a lookup has returned.
C19_InitializedOnce ==
    /\ cell.inits <= 1
    /\ cell.late = 0
    /\ cell.state = "Complete" =>
          /\ cell.inits = 1
          /\ DOMAIN unwrap(cell.value) = {"web", "ion"}
    /\ \A t \in Threads :
          /\ threads[t].pc \in {"get", "done"} => cell.state = "Complete"
          /\ is_some(threads[t].seen) =>
                /\ unwrap(threads[t].seen).names = {"web", "ion"}
                /\ unwrap(threads[t].seen).name \in {"web", "ion"}
                      => is_some(unwrap(threads[t].seen).out)

C19_Witness ==
    /\ \A t \in Threads : threads[t].pc = "done"
    /\ \E t \in Threads :
          /\ unwrap(threads[t].seen).name = "ion"
          /\ threads[t].local = <<>>
    /\ cell.inits = 1

\* The key without its private scalar.
public_projection(jwk) == [jwk EXCEPT !.d = None]

projected(o) == IF is_some(o) THEN Some(public_projection(unwrap(o))) ELSE None

\* C20: a Sidetree create returns what it returns for the public
\* projections of its keys (the same commitments and delta hash), and it
\* rejects a recovery key that is the public projection of the update key
\* with the "must be different" error.
C20_PublicComponentsOnly ==
    (ClientCreateReturned /\ DOMAIN ret.create.options = {}
        /\ is_some(ret.create.update_key) /\ is_some(ret.create.recovery_key))
        => LET public == SidetreeClient_create(
                            DIDCreate(projected(ret.create.update_key),
                                      projected(ret.create.recovery_key),
                                      None, ret.create.options)).v
           IN  /\ ret.out.ok = public.ok
               /\ ret.out.ok => ret.out.v = public.v
               /\ projected(ret.create.update_key) = projected(ret.create.recovery_key)
                    => /\ ~ret.out.ok
                       /\ ret.out.e = Other(<<"Construct Create operation",
                                              KeysMustDiffer>>)

\* C21: no buffer that held the bytes of a private scalar is released
\* without being zeroed: the ECParams field, the temporary secret-key bytes
\* of generate_secp256k1, and the clone made when a JWK with a private scalar
\* is serialized.  (Every buffer the model tracks held such bytes.)
C21_EveryCopyZeroed ==
    \A b \in freed : all_zero(b.bytes)

\* C22: SidetreeClient::create reports the first failure only, in the order:
\* unsupported option, missing update key, missing recovery key, conversion
\* of the update key, conversion of the recovery key, equal update and
\* recovery keys.  (No JWK of the model fails its conversion: serializing
\* an ECParams has no failing path.)
first_failure(create) ==
    IF DOMAIN create.options # {} THEN "option"
    ELSE IF ~is_some(create.update_key) THEN "update key"
    ELSE IF ~is_some(create.recovery_key) THEN "recovery key"
    ELSE IF jwk_to_value(unwrap(create.update_key))
                = jwk_to_value(unwrap(create.recovery_key)) THEN "distinct"
    ELSE "none"

C22_FirstFailureReported ==
    ClientCreateReturned =>
        CASE first_failure(ret.create) = "option" ->
                ~ret.out.ok /\ ret.out.e.kind = "OptionNotSupported"
          [] first_failure(ret.create) = "update key" ->
                /\ ~ret.out.ok
                /\ ret.out.e = Other(<<"Prepare keys for DID creation",
                                       "Missing required update key">>)
          [] first_failure(ret.create) = "recovery key" ->
                /\ ~ret.out.ok
                /\ ret.out.e = Other(<<"Prepare keys for DID creation",
                                       "Missing required recovery key">>)
          [] first_failure(ret.create) = "distinct" ->
                /\ ~ret.out.ok
                /\ ret.out.e = Other(<<"Construct Create operation",
                                       KeysMustDiffer>>)
          [] first_failure(ret.create) = "none" -> ret.out.ok

\* C22 witness: a request that fails three checks at once (an option, and
\* neither key) has been answered with the option's error.
C22_Witness ==
    /\ ClientCreateReturned
    /\ DOMAIN ret.create.options # {}
    /\ ~is_some(ret.create.update_key)
    /\ ~is_some(ret.create.recovery_key)
    /\ ~ret.out.ok
    /\ ret.out.e.kind = "OptionNotSupported"

\* C23: what commitment_scheme canonicalizes and hashes for a PublicKeyJwk
\* is the key object itself (kty, crv, x, y at the top level), with no
\* member around it; and a PublicKeyEntry carries the key object as the
\* value of its publicKeyJwk member.
C23_KeyObjectUnwrapped ==
    ret.op = "commitment_scheme"
        => /\ canonical_bytes(ret.pkjwk) = as_bytes(jcs_value(ret.pkjwk.jwk))
           /\ ret.out.ok
           /\ ret.out.v = hash(hash_algorithm(as_bytes(jcs_value(ret.pkjwk.jwk))))
           /\ PublicKeyEntry_to_value(
                    PublicKeyEntry("key-1", "JsonWebSignature2020", None,
                                   PublicKey_Jwk(ret.pkjwk), <<>>)).v["publicKeyJwk"]
                = ret.pkjwk.jwk

\* C24: the CLI create flow hands the method's create the keys the caller
\* supplied: each key file named on the command line arrives as that key
\* (never as an absent key), so a create for "ion" with two different keys
\* and no options prints a transaction.
C24_CallerKeysReachCreate ==
    (ret.op = "cli_create" /\ is_some(ret.request))
        => /\ unwrap(ret.request).update_key
                    = read_jwk_file_opt(ret.args.update_key).v
           /\ unwrap(ret.request).recovery_key
                    = read_jwk_file_opt(ret.args.recovery_key).v
           /\ unwrap(ret.request).verification_key
                    = read_jwk_file_opt(ret.args.verification_key).v
           /\ (/\ ret.args.method = "ion"
               /\ ret.args.options = <<>>
               /\ is_some(ret.args.update_key)
               /\ is_some(ret.args.recovery_key))
                => ret.out.ok /\ is_some(ret.stdout)

\* C25: in every registry the program holds (one being filled, the one
\* DID_METHODS publishes, one a caller fills), each key is the name() of the
\* implementation stored under it, so a lookup never returns a method of
\* another name; and the published registry's keys are exactly web and ion.
keyed_by_name(registry) ==
    \A k \in DOMAIN registry : method_name(registry[k].type) = k

C25_KeyedByName ==
    /\ keyed_by_name(methods)
    /\ \A t \in Threads :
          /\ keyed_by_name(threads[t].local)
          /\ (is_some(threads[t].seen) /\ is_some(unwrap(threads[t].seen).out))
                => method_name(unwrap(unwrap(threads[t].seen).out).type)
                        = unwrap(threads[t].seen).name
    /\ is_some(cell.value)
          => /\ keyed_by_name(unwrap(cell.value))
             /\ DOMAIN unwrap(cell.value) = {"web", "ion"}

\* C25 witness: DID_METHODS is initialized and a lookup of "web" on it has
\* returned a method.
C25_Witness ==
    /\ cell.state = "Complete"
    /\ is_some(cell.value)
    /\ \E t \in Threads :
          /\ threads[t].pc = "done"
          /\ unwrap(threads[t].seen).name = "web"
          /\ is_some(unwrap(threads[t].seen).out)

====
